---- MODULE Spec2Model ----
(***************************************************************************)
(* A model of meme_bot.py: the template cache (fetch_templates), the       *)
(* message-event handler with its command handlers, and the socket         *)
(* lifecycle (connect / authenticated / subscribe_all).                    *)
(*                                                                         *)
(* Python strings are sequences of one-character strings.  Python values   *)
(* that may be None or of an unexpected type are tagged records: the field *)
(* k names the type ("none", "absent", "str", "list", "dict", "bool").     *)
(* The fixed reply texts are kept as one element each, without their       *)
(* backquotes; the URLs and the texts built from arguments are kept        *)
(* character by character.                                                 *)
(*                                                                         *)
(* Three specifications share the variables: SpecCache (fetch_templates    *)
(* and the clock), SpecConn (main and the socket lifecycle) and SpecMsg    *)
(* (main, the clock and the message events).                               *)
(***************************************************************************)
EXTENDS Integers, Sequences, FiniteSets, TLC

VARIABLES
    templates_cache,        \* _templates_cache
    templates_fetched_at,   \* _templates_fetched_at
    now,                    \* the value time.time() returns
    ticks,                  \* number of clock steps taken so far
    calls,                  \* history of the fetch_templates() calls of GetCatalog
    conn,                   \* position in the socket lifecycle
    connects,               \* number of transport connects so far
    directory,              \* what the Bot Directory API currently holds
    auth_result,            \* result of the authentication on this connection
    emitted,                \* the sio.emit calls made on this connection
    api_gets,               \* the api_get endpoints requested on this connection
    api,                    \* outcomes of the api_get calls of the last subscribe_all
    prev_subscribed,        \* ids subscribed on the previous connection
    bot_id,                 \* bot_id
    bot_name,               \* bot_name
    event,                  \* the messageEvent the gateway has delivered, if any
    last,                   \* what the handling of the last messageEvent did
    exit_cause,             \* why main() returned, once it has
    text_in,                \* the argument of the last call of a text function
    text_out                \* what that call returned

cacheVars == <<templates_cache, templates_fetched_at, now, ticks, calls>>

connVars == <<conn, connects, directory, auth_result, emitted, api_gets, api,
              prev_subscribed, exit_cause>>

botVars == <<bot_id, bot_name>>

msgVars == <<event, last>>

textVars == <<text_in, text_out>>

vars == <<templates_cache, templates_fetched_at, now, ticks, calls,
          conn, connects, directory, auth_result, emitted, api_gets, api,
          prev_subscribed, bot_id, bot_name, event, last, exit_cause,
          text_in, text_out>>

(***************************************************************************)
(* Bounds                                                                  *)
(***************************************************************************)
MaxTicks == 3
MaxCalls == 3
MaxConnects == 3
StartTime == 1000

\* the steps the clock makes between two operations
Deltas == {150}

(***************************************************************************)
(* Python values                                                           *)
(***************************************************************************)
None == [k |-> "none"]
Absent == [k |-> "absent"]
Str(s) == [k |-> "str", s |-> s]
List(v) == [k |-> "list", v |-> v]
Dict(d) == [k |-> "dict", d |-> d]
Bool(b) == [k |-> "bool", b |-> b]

\* dict.get(key, default): the default only when the key is missing
Get(d, key, default) == IF d[key] = Absent THEN default ELSE d[key]

\* Python truthiness of a value
Truthy(x) ==
    CASE x.k = "none" -> FALSE
      [] x.k = "absent" -> FALSE
      [] x.k = "str" -> x.s # <<>>
      [] x.k = "list" -> x.v # <<>>
      [] x.k = "bool" -> x.b
      [] OTHER -> TRUE

(***************************************************************************)
(* Python string operations, on sequences of characters                    *)
(***************************************************************************)
Whitespace == {" ", "\t", "\n"}

UpperCase == <<"A", "B", "C", "D", "E", "F", "G", "H", "I", "J", "K", "L", "M",
               "N", "O", "P", "Q", "R", "S", "T", "U", "V", "W", "X", "Y", "Z">>
LowerCase == <<"a", "b", "c", "d", "e", "f", "g", "h", "i", "j", "k", "l", "m",
               "n", "o", "p", "q", "r", "s", "t", "u", "v", "w", "x", "y", "z">>

UpperSet == {UpperCase[i] : i \in 1..26}
LowerOf == [c \in UpperSet |-> LowerCase[CHOOSE i \in 1..26 : UpperCase[i] = c]]

LowerChar(c) == IF c \in UpperSet THEN LowerOf[c] ELSE c

\* str.lower()
Lower(s) == [i \in 1..Len(s) |-> LowerChar(s[i])]

Drop(s, n) == SubSeq(s, n + 1, Len(s))

\* str.lstrip(chars), str.rstrip(chars), str.strip(chars)
RECURSIVE LStripChars(_, _)
LStripChars(s, chars) ==
    IF s # <<>> /\ Head(s) \in chars THEN LStripChars(Tail(s), chars) ELSE s

RECURSIVE RStripChars(_, _)
RStripChars(s, chars) ==
    IF s # <<>> /\ s[Len(s)] \in chars
    THEN RStripChars(SubSeq(s, 1, Len(s) - 1), chars)
    ELSE s

StripChars(s, chars) == RStripChars(LStripChars(s, chars), chars)

\* str.strip()
Strip(s) == StripChars(s, Whitespace)

\* str.startswith(prefix)
StartsWith(s, prefix) ==
    Len(s) >= Len(prefix) /\ SubSeq(s, 1, Len(prefix)) = prefix

\* the first index at which sub occurs in s, 0 when it does not (str.find + 1)
RECURSIVE FindFrom(_, _, _)
FindFrom(s, sub, i) ==
    IF i + Len(sub) - 1 > Len(s) THEN 0
    ELSE IF SubSeq(s, i, i + Len(sub) - 1) = sub THEN i
    ELSE FindFrom(s, sub, i + 1)

Find(s, sub) == FindFrom(s, sub, 1)

\* sub in s
Contains(s, sub) == Find(s, sub) # 0

\* str.replace(old, new) and re.sub of a literal pattern: the occurrences are
\* replaced from left to right, without overlap
RECURSIVE Replace(_, _, _)
Replace(s, old, new) ==
    LET i == Find(s, old) IN
    IF old = <<>> \/ i = 0 THEN s
    ELSE SubSeq(s, 1, i - 1) \o new \o Replace(Drop(s, i + Len(old) - 1), old, new)

\* re.sub(re.escape(old), '', s, flags=re.IGNORECASE)
RECURSIVE RemoveIgnoreCase(_, _)
RemoveIgnoreCase(s, old) ==
    LET i == Find(Lower(s), Lower(old)) IN
    IF old = <<>> \/ i = 0 THEN s
    ELSE SubSeq(s, 1, i - 1) \o RemoveIgnoreCase(Drop(s, i + Len(old) - 1), old)

\* str.split(None, 1): the first word, and what follows the whitespace after
\* it (the second part is missing when nothing follows)
SplitFirst(s) ==
    LET t == LStripChars(s, Whitespace)
        ends == {i \in 1..Len(t) : t[i] \in Whitespace}
        e == IF ends = {} THEN Len(t) + 1 ELSE CHOOSE i \in ends : \A j \in ends : i <= j
    IN [first |-> SubSeq(t, 1, e - 1),
        rest |-> LStripChars(Drop(t, e - 1), Whitespace)]

\* str.split(sep)[-1] for a one-character separator
RECURSIVE LastPart(_, _)
LastPart(s, sep) ==
    LET i == Find(s, <<sep>>) IN
    IF i = 0 THEN s ELSE LastPart(Drop(s, i), sep)

(***************************************************************************)
(* memegen.link helpers                                                    *)
(***************************************************************************)
MEMEGEN_API == <<"https://api.memegen.link">>

replacements_space_first ==
    << <<"-", <<"-", "-">> >>,
       <<" ", <<"_">> >>,
       <<"_", <<"_", "_">> >>,
       <<"?", <<"~", "q">> >>,
       <<"&", <<"~", "a">> >>,
       <<"%", <<"~", "p">> >>,
       <<"#", <<"~", "h">> >>,
       <<"/", <<"~", "s">> >>,
       <<"\\", <<"~", "b">> >>,
       <<"\"", <<"'", "'">> >> >>

replacements ==
    << <<"-", <<"-", "-">> >>,
       <<"_", <<"_", "_">> >>,
       <<" ", <<"_">> >>,
       <<"?", <<"~", "q">> >>,
       <<"&", <<"~", "a">> >>,
       <<"%", <<"~", "p">> >>,
       <<"#", <<"~", "h">> >>,
       <<"/", <<"~", "s">> >>,
       <<"\\", <<"~", "b">> >>,
       <<"\"", <<"'", "'">> >> >>

\* the loop of _encode_memegen_text from replacement n on
RECURSIVE ApplyReplacements(_, _)
ApplyReplacements(text, n) ==
    IF n > Len(replacements) THEN text
    ELSE ApplyReplacements(Replace(text, <<replacements[n][1]>>, replacements[n][2]), n + 1)

\* _encode_memegen_text
EncodeMemegenText(text) ==
    LET t == Strip(text) IN
    IF t = <<>> THEN <<"_">> ELSE ApplyReplacements(t, 1)

\* variant: the captions go into the URL as they are
BuildMemeUrl_unencoded(template_id, top, bottom) ==
    MEMEGEN_API \o <<"/images/">> \o template_id \o <<"/">> \o top
       \o <<"/">> \o bottom \o <<".png">>

\* build_meme_url
BuildMemeUrl(template_id, top, bottom) ==
    LET top_enc == IF top # <<>> THEN EncodeMemegenText(top) ELSE <<"_">>
        bottom_enc == IF bottom # <<>> THEN EncodeMemegenText(bottom) ELSE <<"_">>
    IN MEMEGEN_API \o <<"/images/">> \o template_id \o <<"/">> \o top_enc
          \o <<"/">> \o bottom_enc \o <<".png">>

Quotes(s) == StripChars(StripChars(Strip(s), {"\""}), {"'"})

\* _parse_top_bottom
ParseTopBottom(text) ==
    LET i == Find(text, <<"|">>) IN
    IF i # 0
    THEN [top |-> Quotes(SubSeq(text, 1, i - 1)), bottom |-> Quotes(Drop(text, i))]
    ELSE [top |-> Quotes(text), bottom |-> <<>>]

(***************************************************************************)
(* Template Provider: what GET /templates can answer                       *)
(***************************************************************************)
CACHE_TTL == 300

Template(id, name, example) == Dict([id |-> id, name |-> name, example |-> example])

T_dr == Template(Str(<<"d", "r">>), Str(<<"D", "r">>),
                 Dict([text |-> List(<<Str(<<"a">>), Str(<<"b">>)>>)]))
T_fry == Template(Str(<<"x", "/", "f", "y">>), Str(<<"F", "y">>), Absent)
T_noname == Template(Str(<<"n">>), None, Absent)
T_noid == Template(None, Str(<<"N">>), Absent)
T_noex == Template(Str(<<"e">>), Absent, None)

\* the bodies a 2xx answer can carry once parsed by resp.json()
Bodies ==
    { List(<<>>),
      List(<<T_dr>>),
      List(<<T_dr, T_fry>>),
      List(<<T_noname>>),
      List(<<T_noid>>),
      List(<<T_noex>>),
      List(<<Str(<<"d", "r">>)>>),
      None }

\* network error, non-2xx status, body that is not JSON
Failures == {"neterr", "non2xx", "badjson"}

Responses ==
    [status : Failures, body : {None}] \cup [status : {"ok"}, body : Bodies]

(***************************************************************************)
(* fetch_templates                                                         *)
(***************************************************************************)
\* variant: an entry aged exactly CACHE_TTL still counts as fresh
FetchTemplates_ttl_inclusive(cache, fetched_at, t, resp) ==
    IF Truthy(cache) /\ (t - fetched_at) <= CACHE_TTL
    THEN [cache |-> cache, fetched_at |-> fetched_at, upstream |-> FALSE, ret |-> cache]
    ELSE IF resp.status = "ok"
         THEN [cache |-> resp.body, fetched_at |-> t, upstream |-> TRUE, ret |-> resp.body]
         ELSE [cache |-> cache, fetched_at |-> fetched_at, upstream |-> TRUE, ret |-> cache]

\* variant: the timestamp is set before the request instead of after it
FetchTemplates_stamp_first(cache, fetched_at, t, resp) ==
    IF Truthy(cache) /\ (t - fetched_at) < CACHE_TTL
    THEN [cache |-> cache, fetched_at |-> fetched_at, upstream |-> FALSE, ret |-> cache]
    ELSE IF resp.status = "ok"
         THEN [cache |-> resp.body, fetched_at |-> t, upstream |-> TRUE, ret |-> resp.body]
         ELSE [cache |-> cache, fetched_at |-> t, upstream |-> TRUE, ret |-> cache]

\* variant: freshness is decided by the timestamp alone
FetchTemplates_no_empty_check(cache, fetched_at, t, resp) ==
    IF (t - fetched_at) < CACHE_TTL
    THEN [cache |-> cache, fetched_at |-> fetched_at, upstream |-> FALSE, ret |-> cache]
    ELSE IF resp.status = "ok"
         THEN [cache |-> resp.body, fetched_at |-> t, upstream |-> TRUE, ret |-> resp.body]
         ELSE [cache |-> cache, fetched_at |-> fetched_at, upstream |-> TRUE, ret |-> cache]

FetchTemplates(cache, fetched_at, t, resp) ==
    IF Truthy(cache) /\ (t - fetched_at) < CACHE_TTL
    THEN [cache |-> cache, fetched_at |-> fetched_at, upstream |-> FALSE, ret |-> cache]
    ELSE IF resp.status = "ok"
         THEN [cache |-> resp.body, fetched_at |-> t, upstream |-> TRUE, ret |-> resp.body]
         ELSE [cache |-> cache, fetched_at |-> fetched_at, upstream |-> TRUE, ret |-> cache]

\* the entry the history keeps of one call
CallEntry(t, resp, r) ==
    [t |-> t, upstream |-> r.upstream,
     status |-> IF r.upstream THEN resp.status ELSE "cached",
     body |-> IF r.upstream THEN resp.body ELSE None,
     ret |-> r.ret]

\* time passes
Tick ==
    /\ ticks < MaxTicks
    /\ \E d \in Deltas : now' = now + d
    /\ ticks' = ticks + 1
    /\ UNCHANGED <<templates_cache, templates_fetched_at, calls>>
    /\ UNCHANGED <<connVars, botVars, msgVars, textVars>>

\* a call of fetch_templates() that is not part of a command (main's pre-fetch)
GetCatalog ==
    /\ Len(calls) < MaxCalls
    /\ \E resp \in Responses :
          LET r == FetchTemplates(templates_cache, templates_fetched_at, now, resp) IN
          /\ templates_cache' = r.cache
          /\ templates_fetched_at' = r.fetched_at
          /\ calls' = Append(calls, CallEntry(now, resp, r))
    /\ UNCHANGED <<now, ticks>>
    /\ UNCHANGED <<connVars, botVars, msgVars, textVars>>

(***************************************************************************)
(* Command handlers.  A handler yields the send_message calls it makes,    *)
(* whether it raised, and whether it called fetch_templates(); cat is what  *)
(* fetch_templates() returns to it and pick the index random.choice draws.  *)
(***************************************************************************)
Msg(server_id, channel_id, content) ==
    [server_id |-> server_id, channel_id |-> channel_id, content |-> content]

Done(sent, fetch) == [sent |-> sent, raised |-> FALSE, fetch |-> fetch]
Raise(fetch) == [sent |-> <<>>, raised |-> TRUE, fetch |-> fetch]

\* how an f-string renders a value
Format(x) == IF x.k = "str" THEN x.s ELSE <<"N", "o", "n", "e">>

HelpText == <<"**Meme Bot Commands** ...">>
UsageGenerate == <<"Usage: !meme generate <template> <top> | <bottom> ...">>
UsageSearch == <<"Usage: !meme search <query>">>
UsagePreview == <<"Usage: !meme preview <template>">>
FetchFailedText == <<"Failed to fetch templates. Try again later.">>

POPULAR_TEMPLATES ==
    <<"drake - Drake Hotline Bling", "buzz - Buzz Lightyear", "doge - Doge",
      "fry - Futurama Fry", "batman - Batman Slapping Robin",
      "success - Success Kid", "grumpy - Grumpy Cat", "rollsafe - Roll Safe",
      "picard - Picard Facepalm", "alien - Ancient Aliens", "fine - This Is Fine",
      "change - Change My Mind", "brain - Expanding Brain",
      "distracted - Distracted Boyfriend", "always - Always Has Been">>

\* cmd_help
CmdHelp(server_id, channel_id, args, cat, pick) ==
    Done(<<Msg(server_id, channel_id, HelpText)>>, FALSE)

\* cmd_templates
CmdTemplates(server_id, channel_id, args, cat, pick) ==
    IF cat.k # "list" THEN Raise(TRUE)
    ELSE Done(<<Msg(server_id, channel_id,
                    <<"**Popular Meme Templates**\n">> \o POPULAR_TEMPLATES
                       \o <<"\nUse !meme search <query> to find more from ",
                            ToString(Len(cat.v)), "+ templates.">>)>>, TRUE)

\* t.get('name', '').lower() can be evaluated
HasName(t) == t.k = "dict" /\ Get(t.d, "name", Str(<<>>)).k = "str"

\* search_templates, for a catalog every entry of which has a name
SearchTemplates(cat, query) ==
    SelectSeq(cat.v, LAMBDA t : Contains(Lower(Get(t.d, "name", Str(<<>>)).s), Lower(query)))

RECURSIVE SearchLines(_)
SearchLines(results) ==
    IF results = <<>> THEN <<>>
    ELSE LET t == Head(results) IN
         <<"\n">> \o LastPart(Get(t.d, "id", Str(<<>>)).s, "/") \o <<" - ">>
            \o Format(Get(t.d, "name", Str(<<"Unknown">>))) \o SearchLines(Tail(results))

\* cmd_search
CmdSearch(server_id, channel_id, args, cat, pick) ==
    LET query == Strip(args) IN
    IF query = <<>> THEN Done(<<Msg(server_id, channel_id, UsageSearch)>>, FALSE)
    ELSE IF cat.k # "list" THEN Raise(TRUE)
    ELSE IF \E i \in 1..Len(cat.v) : ~HasName(cat.v[i]) THEN Raise(TRUE)
    ELSE LET results == SearchTemplates(cat, query)
             shown == SubSeq(results, 1, IF Len(results) < 15 THEN Len(results) ELSE 15)
         IN IF results = <<>>
            THEN Done(<<Msg(server_id, channel_id,
                            <<"No templates found for **">> \o query \o <<"**.">>)>>, TRUE)
            ELSE IF \E i \in 1..Len(shown) : Get(shown[i].d, "id", Str(<<>>)).k # "str"
                 THEN Raise(TRUE)
                 ELSE Done(<<Msg(server_id, channel_id,
                                 <<"**Templates matching \"">> \o query
                                    \o <<"\"** (showing up to 15)\n">>
                                    \o SearchLines(shown))>>, TRUE)

\* variant: the catalog is fetched before the URL is built
CmdGenerate_fetching(server_id, channel_id, args, cat, pick) ==
    LET a == Strip(args) IN
    IF a = <<>> THEN Done(<<Msg(server_id, channel_id, UsageGenerate)>>, FALSE)
    ELSE LET parts == SplitFirst(a)
             template_id == Lower(parts.first)
             tb == ParseTopBottom(parts.rest)
         IN Done(<<Msg(server_id, channel_id,
                       BuildMemeUrl(template_id, tb.top, tb.bottom))>>, TRUE)

\* cmd_generate
CmdGenerate(server_id, channel_id, args, cat, pick) ==
    LET a == Strip(args) IN
    IF a = <<>> THEN Done(<<Msg(server_id, channel_id, UsageGenerate)>>, FALSE)
    ELSE LET parts == SplitFirst(a)
             template_id == Lower(parts.first)
             tb == ParseTopBottom(parts.rest)
         IN Done(<<Msg(server_id, channel_id,
                       BuildMemeUrl(template_id, tb.top, tb.bottom))>>, FALSE)

\* the example captions cmd_random falls back to (lines 225-227)
ExampleText(example) ==
    LET text == Get(example.d, "text", None) IN
    IF Truthy(text)
    THEN [top |-> text.v[1].s,
          bottom |-> IF Len(text.v) > 1 THEN text.v[2].s ELSE <<>>]
    ELSE [top |-> <<>>, bottom |-> <<>>]

\* cmd_random
CmdRandom(server_id, channel_id, args, cat, pick) ==
    IF ~Truthy(cat) THEN Done(<<Msg(server_id, channel_id, FetchFailedText)>>, TRUE)
    ELSE LET t == cat.v[pick] IN
         IF t.k # "dict" THEN Raise(TRUE)
         ELSE IF Get(t.d, "id", Str(<<>>)).k # "str" THEN Raise(TRUE)
         ELSE LET tid == LastPart(Get(t.d, "id", Str(<<>>)).s, "/")
                  a == Strip(args)
                  example == Get(t.d, "example", Dict([text |-> Absent]))
              IN IF a = <<>> /\ example.k # "dict" THEN Raise(TRUE)
                 ELSE LET tb == IF a # <<>> THEN ParseTopBottom(a) ELSE ExampleText(example)
                      IN Done(<<Msg(server_id, channel_id,
                                    <<"**">> \o Format(Get(t.d, "name", Str(tid))) \o <<"**\n">>
                                       \o BuildMemeUrl(tid, tb.top, tb.bottom))>>, TRUE)

\* cmd_preview
CmdPreview(server_id, channel_id, args, cat, pick) ==
    LET template_id == Lower(Strip(args)) IN
    IF template_id = <<>> THEN Done(<<Msg(server_id, channel_id, UsagePreview)>>, FALSE)
    ELSE Done(<<Msg(server_id, channel_id, BuildMemeUrl(template_id, <<"_">>, <<"_">>))>>, FALSE)

W_help == <<"h", "e", "l", "p">>
W_generate == <<"g", "e", "n", "e", "r", "a", "t", "e">>
W_templates == <<"t", "e", "m", "p", "l", "a", "t", "e", "s">>
W_search == <<"s", "e", "a", "r", "c", "h">>
W_random == <<"r", "a", "n", "d", "o", "m">>
W_preview == <<"p", "r", "e", "v", "i", "e", "w">>

COMMANDS == {W_help, W_generate, W_templates, W_search, W_random, W_preview}

\* variant: the fallback passes only the text after the first token
HandleCommand_fallback_args(server_id, channel_id, text0, cat, pick) ==
    LET text == Strip(text0) IN
    IF text = <<>> THEN CmdHelp(server_id, channel_id, <<>>, cat, pick)
    ELSE LET parts == SplitFirst(text)
             cmd_name == Lower(parts.first)
             cmd_args == parts.rest
         IN CASE cmd_name = W_help -> CmdHelp(server_id, channel_id, cmd_args, cat, pick)
              [] cmd_name = W_generate -> CmdGenerate(server_id, channel_id, cmd_args, cat, pick)
              [] cmd_name = W_templates -> CmdTemplates(server_id, channel_id, cmd_args, cat, pick)
              [] cmd_name = W_search -> CmdSearch(server_id, channel_id, cmd_args, cat, pick)
              [] cmd_name = W_random -> CmdRandom(server_id, channel_id, cmd_args, cat, pick)
              [] cmd_name = W_preview -> CmdPreview(server_id, channel_id, cmd_args, cat, pick)
              [] OTHER -> CmdGenerate(server_id, channel_id, cmd_args, cat, pick)

\* handle_command
HandleCommand(server_id, channel_id, text0, cat, pick) ==
    LET text == Strip(text0) IN
    IF text = <<>> THEN CmdHelp(server_id, channel_id, <<>>, cat, pick)
    ELSE LET parts == SplitFirst(text)
             cmd_name == Lower(parts.first)
             cmd_args == parts.rest
         IN CASE cmd_name = W_help -> CmdHelp(server_id, channel_id, cmd_args, cat, pick)
              [] cmd_name = W_generate -> CmdGenerate(server_id, channel_id, cmd_args, cat, pick)
              [] cmd_name = W_templates -> CmdTemplates(server_id, channel_id, cmd_args, cat, pick)
              [] cmd_name = W_search -> CmdSearch(server_id, channel_id, cmd_args, cat, pick)
              [] cmd_name = W_random -> CmdRandom(server_id, channel_id, cmd_args, cat, pick)
              [] cmd_name = W_preview -> CmdPreview(server_id, channel_id, cmd_args, cat, pick)
              [] OTHER -> CmdGenerate(server_id, channel_id, text, cat, pick)

(***************************************************************************)
(* on_message_event                                                        *)
(***************************************************************************)
Ignored ==
    [sent |-> <<>>, raised |-> FALSE, fetch |-> FALSE,
     dispatched |-> FALSE, via |-> "none", text |-> <<>>]

\* an exception leaves on_message_event before handle_command is reached
Raised ==
    [sent |-> <<>>, raised |-> TRUE, fetch |-> FALSE,
     dispatched |-> FALSE, via |-> "none", text |-> <<>>]

Dispatched(via, text, r) ==
    [sent |-> r.sent, raised |-> r.raised, fetch |-> r.fetch,
     dispatched |-> TRUE, via |-> via, text |-> text]

P_meme == <<"!", "m", "e", "m", "e">>

NewMessageTypes == {Str(<<"new_message">>), Str(<<"message_created">>), Str(<<>>)}

\* f'<@{bot_id}>' and f'@{bot_name}'
IdToken(id) == <<"<", "@">> \o Format(id) \o <<">">>
NameToken(name) == <<"@">> \o Format(name)

\* variant: the sender is not compared with the bot's id
IsOwnMessage_never(sender_id, id) == FALSE

\* sender_id == bot_id
IsOwnMessage(sender_id, id) == sender_id = id

\* variant: direct messages are handled like channel messages
IsDirectMessage_never(msg) == FALSE

\* msg.get('isDirect')
IsDirectMessage(msg) == Truthy(Get(msg, "isDirect", None))

\* lines 335-344, for a content that is a string
OnMention(msg, content, server_id, channel_id, id, name, cat, pick) ==
    LET mentions == Get(msg, "mentions", List(<<>>)) IN
    IF ~Truthy(id) THEN Ignored
    ELSE IF mentions.k # "list" THEN Raised
    ELSE IF \/ \E i \in 1..Len(mentions.v) : mentions.v[i] = id
            \/ Contains(content, NameToken(name))
            \/ Contains(content, IdToken(id))
         THEN LET c1 == Replace(content, IdToken(id), <<>>)
                  c2 == IF Truthy(name) THEN RemoveIgnoreCase(c1, NameToken(name)) ELSE c1
                  cleaned == Strip(c2)
              IN Dispatched("mention", cleaned,
                            HandleCommand(server_id, channel_id, cleaned, cat, pick))
         ELSE Ignored

\* on_message_event(data): msg is data['data'] when data carries one
OnMessageEvent(data, id, name, cat, pick) ==
    IF Get(data, "type", Str(<<>>)) \notin NewMessageTypes THEN Ignored
    ELSE IF data.wrap = "null" THEN Raised
    ELSE LET msg == data
             content == Get(msg, "content", Str(<<>>))
             sender_id == Get(msg, "senderId", Str(<<>>))
             channel_id == Get(msg, "channelId", Str(<<>>))
             server_id == Get(msg, "serverId", Str(<<>>))
         IN IF IsOwnMessage(sender_id, id) THEN Ignored
            ELSE IF IsDirectMessage(msg) THEN Ignored
            ELSE IF content.k # "str" THEN Raised
            ELSE IF StartsWith(content.s, P_meme)
                 THEN LET cmd_text == Strip(Drop(content.s, 5)) IN
                      Dispatched("direct", cmd_text,
                                 HandleCommand(server_id, channel_id, cmd_text, cat, pick))
                 ELSE OnMention(msg, content.s, server_id, channel_id, id, name, cat, pick)

(***************************************************************************)
(* The message events the gateway delivers                                 *)
(***************************************************************************)
\* wrap: "flat" when the fields are those of data itself, "nested" when they
\* are those of data['data'], "null" when data['data'] is None
Event(type, wrap, content, senderId, isDirect, mentions) ==
    [type |-> type, wrap |-> wrap, content |-> content, senderId |-> senderId,
     serverId |-> Str(<<"S", "1">>), channelId |-> Str(<<"C", "1">>),
     isDirect |-> isDirect, mentions |-> mentions]

NoEvent == [wrap |-> "none"]

NoLast ==
    [event |-> NoEvent, sent |-> <<>>, raised |-> FALSE, fetch |-> FALSE,
     upstream |-> FALSE, failed |-> FALSE, dispatched |-> FALSE, via |-> "none",
     text |-> <<>>]

B1 == Str(<<"b", "1">>)
U1 == Str(<<"u", "1">>)
BotName == Str(<<"B", "o", "t">>)

SP == <<" ">>
C_help == P_meme \o SP \o W_help
C_bare == P_meme
C_templates == P_meme \o SP \o W_templates
C_search == P_meme \o SP \o W_search \o SP \o <<"d">>
C_search_usage == P_meme \o SP \o W_search
C_random == P_meme \o SP \o W_random
C_random_text == P_meme \o SP \o W_random \o SP \o <<"x", " ", "|", " ", "y">>
C_generate == P_meme \o SP \o W_generate \o SP
                 \o <<"D", "r", " ", "\"", "A", "\"", " ", "|", " ", "\"", "B", "\"">>

\* generate commands: the template, the two halves as typed, and the captions
\* the halves stand for
GenCases ==
    {[template |-> <<"D", "r">>, left |-> <<"\"", "A", "\"">>, right |-> <<"\"", "B", "\"">>,
      top |-> <<"A">>, bottom |-> <<"B">>],
     [template |-> <<"F", "y">>, left |-> <<"'", "a", " ", "b", "'">>, right |-> <<"c", "?">>,
      top |-> <<"a", " ", "b">>, bottom |-> <<"c", "?">>]}

GenContent(g) ==
    P_meme \o SP \o W_generate \o SP \o g.template \o SP \o g.left \o <<" ", "|", " ">>
       \o g.right

C_preview == P_meme \o SP \o W_preview \o SP \o <<"d", "r">>
C_unknown == P_meme \o SP \o <<"x", "y", "z", " ", "h", "i">>
C_chat == <<"h", "i">>
C_mention_name == <<"@", "B", "o", "t">> \o SP \o W_help
C_mention_lower == <<"@", "b", "o", "t">> \o SP \o W_help
C_mention_id == <<"<", "@", "b", "1", ">">> \o SP \o W_random

Contents ==
    {C_help, C_bare, C_templates, C_search, C_search_usage, C_random, C_random_text,
     C_generate, C_preview, C_unknown, C_chat, C_mention_name, C_mention_id,
     C_mention_lower}
    \cup {GenContent(g) : g \in GenCases}

Events ==
    {Event(Str(<<"new_message">>), "flat", Str(c), U1, Absent, Absent) : c \in Contents}
    \cup
    {Event(t, w, Str(c), sd, d, m) :
        t \in {Absent, Str(<<"message_edited">>)},
        w \in {"flat", "nested"},
        c \in {C_help, C_mention_name},
        sd \in {U1, B1},
        d \in {Absent, Bool(TRUE)},
        m \in {Absent, List(<<B1>>)}}
    \cup
    {Event(Absent, "null", Str(C_help), U1, Absent, Absent),
     Event(Str(<<"message_created">>), "flat", Str(C_help), Absent, Absent, Absent),
     Event(Absent, "flat", None, U1, Absent, Absent),
     Event(Absent, "flat", None, B1, Absent, Absent),
     Event(Absent, "flat", None, None, Bool(TRUE), Absent),
     Event(Absent, "flat", Absent, U1, Absent, List(<<B1>>)),
     Event(Absent, "flat", Str(C_chat), U1, Absent, None),
     Event(Absent, "flat", Str(C_random), None, Bool(FALSE), Absent),
     Event(None, "flat", Str(C_help), U1, Absent, Absent),
     [Event(Absent, "flat", Str(C_templates), U1, Absent, Absent)
         EXCEPT !.serverId = Str(<<"S", "2">>), !.channelId = Str(<<"C", "2">>)]}

\* the template an index drawn by random.choice can name
Picks(cat) == IF cat.k = "list" /\ cat.v # <<>> THEN 1..Len(cat.v) ELSE {1}

(***************************************************************************)
(* main                                                                    *)
(***************************************************************************)
\* what GET /validate and GET /profile can answer (None: api_get failed)
ValidateResults ==
    {None,
     Dict([valid |-> Bool(FALSE), bot_id |-> Absent]),
     Dict([valid |-> Bool(TRUE), bot_id |-> B1]),
     Dict([valid |-> Bool(TRUE), bot_id |-> Absent])}

Profiles == {None, Dict([name |-> BotName])}

(***************************************************************************)
(* Bot Directory API: servers and channels                                 *)
(***************************************************************************)
\* a key that is missing from a dict, so that dict.get(key) gives None
NoVal == "<None>"

Server(serverId, id) == [serverId |-> serverId, id |-> id]
Channel(id, type) == [id |-> id, type |-> type]

DirA ==
    [servers |-> <<Server("s1", NoVal), Server(NoVal, "s2")>>,
     channels |-> [x \in {"s1", "s2", "s3"} |->
        CASE x = "s1" -> <<Channel("c1", "text"), Channel("c2", "voice")>>
          [] x = "s2" -> <<Channel("c3", ""), Channel("c4", NoVal), Channel("c5", "text")>>
          [] OTHER -> <<>>]]

DirB ==
    [servers |-> <<Server(NoVal, "s3"), Server("s2", "s2")>>,
     channels |-> [x \in {"s1", "s2", "s3"} |->
        CASE x = "s3" -> <<Channel("c6", "text")>>
          [] x = "s2" -> <<Channel("c3", "text"), Channel("c7", "category")>>
          [] OTHER -> <<>>]]

DirNone == [servers |-> <<>>, channels |-> [x \in {"s1", "s2", "s3"} |-> <<>>]]

Directories == {DirA, DirB, DirNone}

\* srv.get('serverId') or srv.get('id')
SrvId(srv) == IF srv.serverId \notin {NoVal, ""} THEN srv.serverId ELSE srv.id

\* outcomes of the api_get calls of one subscribe_all: whether GET /servers
\* answers, and the servers whose GET /{id}/channels fails (api_get gives None)
ApiOutcomes == [servers_ok : BOOLEAN, failing : SUBSET {"s1", "s2", "s3"}]

NoApi == [servers_ok |-> FALSE, failing |-> {}]

(***************************************************************************)
(* subscribe_all                                                           *)
(***************************************************************************)
Emit(name, scope, id) == [event |-> name, type |-> scope, id |-> id]

\* ch.get('type') in ('text', '')
IsTextType(type) == type \in {"text", ""}

RECURSIVE SubscribeChannels(_)
SubscribeChannels(channels) ==
    IF channels = <<>> THEN <<>>
    ELSE LET ch == Head(channels) IN
         (IF IsTextType(ch.type) THEN <<Emit("subscribe", "channel", ch.id)>> ELSE <<>>)
            \o SubscribeChannels(Tail(channels))

\* variant: the first server whose channels cannot be listed ends the loop
RECURSIVE SubscribeServers_abort(_, _, _)
SubscribeServers_abort(servers, dir, failing) ==
    IF servers = <<>> THEN <<>>
    ELSE LET srv_id == SrvId(Head(servers)) IN
         <<Emit("subscribe", "server", srv_id)>>
            \o (IF srv_id \in failing
                THEN <<>>
                ELSE SubscribeChannels(dir.channels[srv_id])
                        \o SubscribeServers_abort(Tail(servers), dir, failing))

\* the loop over the servers: the emits it makes, in order
RECURSIVE SubscribeServers(_, _, _)
SubscribeServers(servers, dir, failing) ==
    IF servers = <<>> THEN <<>>
    ELSE LET srv_id == SrvId(Head(servers)) IN
         <<Emit("subscribe", "server", srv_id)>>
            \o (IF srv_id \in failing
                THEN <<>>
                ELSE SubscribeChannels(dir.channels[srv_id]))
            \o SubscribeServers(Tail(servers), dir, failing)

\* the api_get calls subscribe_all makes, in order
ApiGets(dir, outcome) ==
    <<"/servers">> \o
        (IF outcome.servers_ok
         THEN [i \in 1..Len(dir.servers) |-> SrvId(dir.servers[i])]
         ELSE <<>>)

\* variant: ids subscribed on the previous connection are not subscribed again
SubscribeAll_incremental(dir, outcome) ==
    IF ~outcome.servers_ok THEN <<>>
    ELSE SelectSeq(SubscribeServers(dir.servers, dir, outcome.failing),
                   LAMBDA e : e.id \notin prev_subscribed)

SubscribeAll(dir, outcome) ==
    IF ~outcome.servers_ok THEN <<>>
    ELSE SubscribeServers(dir.servers, dir, outcome.failing)

(***************************************************************************)
(* Socket lifecycle                                                        *)
(***************************************************************************)
SubscribedIds(emits) ==
    {emits[i].id : i \in {n \in 1..Len(emits) : emits[n].event = "subscribe"}}

\* the 'authenticated' payloads the gateway can send
AuthData == [success : {Bool(TRUE), Bool(FALSE), Absent, None}]

\* what the gateway reported, as the history keeps it
Reported(data) == IF data.success = Bool(TRUE) THEN "success" ELSE "failure"

\* variant: the result is taken for a success whatever it says
AuthSucceeded_always(data) == TRUE

\* data.get('success')
AuthSucceeded(data) == Truthy(Get(data, "success", None))

(***************************************************************************)
(* The text functions, called on their own                                 *)
(***************************************************************************)
MaxTextLen == 3

\* the characters the argument texts are made of
Alphabet == {"a", " ", "|", "\"", "'", "-", "_", "?", "&", "%", "#", "/", "\\"}

RECURSIVE TextsOfLen(_)
TextsOfLen(n) ==
    IF n = 0 THEN {<<>>}
    ELSE {Append(t, c) : t \in TextsOfLen(n - 1), c \in Alphabet}

Texts == UNION {TextsOfLen(n) : n \in 0..MaxTextLen}

\* no text function is running
NoCall == [op |-> "none"]

\* a call of _parse_top_bottom(text)
ParseText ==
    /\ text_out = NoCall
    /\ \E text \in Texts :
          /\ text_in' = text
          /\ text_out' = [op |-> "parse", top |-> ParseTopBottom(text).top,
                          bottom |-> ParseTopBottom(text).bottom]
    /\ UNCHANGED <<cacheVars, connVars, botVars, msgVars>>

\* a call of _encode_memegen_text(text)
EncodeText ==
    /\ text_out = NoCall
    /\ \E text \in Texts :
          /\ text_in' = text
          /\ text_out' = [op |-> "encode", ret |-> EncodeMemegenText(text)]
    /\ UNCHANGED <<cacheVars, connVars, botVars, msgVars>>

\* the caller takes the result
Return ==
    /\ text_out # NoCall
    /\ text_in' = <<>>
    /\ text_out' = NoCall
    /\ UNCHANGED <<cacheVars, connVars, botVars, msgVars>>

\* the module's globals as the import leaves them
Init ==
    /\ templates_cache = List(<<>>)
    /\ templates_fetched_at = 0
    /\ now = StartTime
    /\ ticks = 0
    /\ calls = <<>>
    /\ conn = "Start"
    /\ connects = 0
    /\ directory = DirA
    /\ auth_result = "none"
    /\ emitted = <<>>
    /\ api_gets = <<>>
    /\ api = NoApi
    /\ prev_subscribed = {}
    /\ bot_id = None
    /\ bot_name = None
    /\ event = NoEvent
    /\ last = NoLast
    /\ exit_cause = "none"
    /\ text_in = <<>>
    /\ text_out = NoCall

\* the transport connects (first connect or a reconnection): connect()
Connect ==
    /\ conn \in {"Connecting", "Disconnected"}
    /\ connects < MaxConnects
    /\ connects' = connects + 1
    /\ conn' = "Authenticating"
    /\ emitted' = <<Emit("authenticate", "", "")>>
    /\ prev_subscribed' = SubscribedIds(emitted)
    /\ auth_result' = "none"
    /\ api_gets' = <<>>
    /\ api' = NoApi
    /\ UNCHANGED <<directory, exit_cause>>
    /\ UNCHANGED <<cacheVars, botVars, msgVars, textVars>>

\* sio.connect() of main fails: main prints the error and returns
ConnectError ==
    /\ conn = "Connecting"
    /\ conn' = "Exited"
    /\ exit_cause' = "connection error"
    /\ UNCHANGED <<connects, directory, auth_result, emitted, api_gets, api, prev_subscribed>>
    /\ UNCHANGED <<cacheVars, botVars, msgVars, textVars>>

\* on_authenticated(data), subscribe_all() included
OnAuthenticated ==
    /\ conn = "Authenticating"
    /\ \E data \in AuthData, outcome \in ApiOutcomes :
          IF AuthSucceeded(data)
          THEN /\ emitted' = emitted \o SubscribeAll(directory, outcome)
               /\ api_gets' = api_gets \o ApiGets(directory, outcome)
               /\ api' = outcome
               /\ auth_result' = Reported(data)
               /\ conn' = "Active"
          ELSE /\ auth_result' = Reported(data)
               /\ conn' = "AuthFailed"
               /\ UNCHANGED <<emitted, api_gets, api>>
    /\ UNCHANGED <<connects, directory, prev_subscribed, exit_cause>>
    /\ UNCHANGED <<cacheVars, botVars, msgVars, textVars>>

\* the transport is lost: disconnect()
Disconnect ==
    /\ conn \in {"Authenticating", "Active", "AuthFailed"}
    /\ conn' = "Disconnected"
    /\ UNCHANGED <<connects, directory, auth_result, emitted, api_gets, api, prev_subscribed,
                   exit_cause>>
    /\ UNCHANGED <<cacheVars, botVars, msgVars, textVars>>

\* KeyboardInterrupt in main: sio.disconnect() and return
Shutdown ==
    /\ conn \in {"Connecting", "Authenticating", "Active", "AuthFailed", "Disconnected"}
    /\ conn' = "Exited"
    /\ exit_cause' = "shutdown"
    /\ UNCHANGED <<connects, directory, auth_result, emitted, api_gets, api, prev_subscribed>>
    /\ UNCHANGED <<cacheVars, botVars, msgVars, textVars>>

\* servers and channels are created and removed while the bot is away
DirectoryChange ==
    /\ conn \in {"Start", "Connecting", "Disconnected"}
    /\ \E d \in Directories \ {directory} : directory' = d
    /\ UNCHANGED <<conn, connects, auth_result, emitted, api_gets, api, prev_subscribed,
                   exit_cause>>
    /\ UNCHANGED <<cacheVars, botVars, msgVars, textVars>>

\* main(), up to the call of sio.connect()
Main ==
    /\ conn = "Start"
    /\ \E key_set \in BOOLEAN, result \in ValidateResults, profile \in Profiles,
          resp \in Responses :
          LET r == FetchTemplates(templates_cache, templates_fetched_at, now, resp) IN
          IF ~key_set \/ ~Truthy(result) \/ ~Truthy(Get(result.d, "valid", None))
          THEN /\ conn' = "Exited"
               /\ UNCHANGED <<bot_id, bot_name, templates_cache, templates_fetched_at>>
          ELSE /\ bot_id' = Get(result.d, "bot_id", None)
               /\ bot_name' = IF Truthy(profile)
                              THEN Get(profile.d, "name", Str(<<"M", "e", "m", "e", "B", "o", "t">>))
                              ELSE bot_name
               /\ templates_cache' = r.cache
               /\ templates_fetched_at' = r.fetched_at
               \* len(templates) raises when the catalog is not a list
               /\ conn' = IF r.ret.k = "list" THEN "Connecting" ELSE "Exited"
    /\ exit_cause' = IF conn' = "Exited" THEN "startup" ELSE "none"
    /\ UNCHANGED <<now, ticks, calls>>
    /\ UNCHANGED <<connects, directory, auth_result, emitted, api_gets, api, prev_subscribed>>
    /\ UNCHANGED <<msgVars, textVars>>

\* the gateway delivers a messageEvent
Receive ==
    /\ conn \notin {"Start", "Exited"}
    /\ event = NoEvent
    /\ last = NoLast
    /\ \E e \in Events : event' = e
    /\ UNCHANGED last
    /\ UNCHANGED <<cacheVars, connVars, botVars, textVars>>

\* on_message_event(data) runs on the delivered event
Handle ==
    /\ event # NoEvent
    /\ \E resp \in Responses :
          LET r == FetchTemplates(templates_cache, templates_fetched_at, now, resp) IN
          \E pick \in Picks(r.ret) :
             LET res == OnMessageEvent(event, bot_id, bot_name, r.ret, pick) IN
             /\ templates_cache' = IF res.fetch THEN r.cache ELSE templates_cache
             /\ templates_fetched_at' = IF res.fetch THEN r.fetched_at ELSE templates_fetched_at
             /\ last' = [event |-> event, sent |-> res.sent, raised |-> res.raised,
                         fetch |-> res.fetch, upstream |-> res.fetch /\ r.upstream,
                         failed |-> res.fetch /\ r.upstream /\ resp.status \in Failures,
                         dispatched |-> res.dispatched, via |-> res.via, text |-> res.text]
    /\ event' = NoEvent
    /\ UNCHANGED <<now, ticks, calls>>
    /\ UNCHANGED <<connVars, botVars, textVars>>

\* the handler has returned and the client waits for the next event: sio.wait()
Wait ==
    /\ event = NoEvent
    /\ last # NoLast
    /\ last' = NoLast
    /\ UNCHANGED event
    /\ UNCHANGED <<cacheVars, connVars, botVars, textVars>>

CacheNext == Tick \/ GetCatalog

SpecCache == Init /\ [][CacheNext]_vars

ConnNext ==
    \/ Main
    \/ Connect
    \/ ConnectError
    \/ OnAuthenticated
    \/ Disconnect
    \/ Shutdown
    \/ DirectoryChange

SpecConn == Init /\ [][ConnNext]_vars

MsgNext == Main \/ Tick \/ Receive \/ Handle \/ Wait

SpecMsg == Init /\ [][MsgNext]_vars

TextNext == ParseText \/ EncodeText \/ Return

SpecText == Init /\ [][TextNext]_vars

(***************************************************************************)
(* Properties of the template cache                                        *)
(***************************************************************************)
LastCall == calls[Len(calls)]

\* call i fetched upstream, the fetch succeeded and left a non-empty catalog
FetchedCatalog(i) ==
    calls[i].upstream /\ calls[i].status = "ok" /\ Truthy(calls[i].ret)

NoFetchBetween(i, j) == \A m \in (i + 1)..(j - 1) : ~calls[m].upstream

\* C1 as stated: of any two successive fetch_templates() calls made less than
\* CACHE_TTL apart exactly one goes upstream, and a call made CACHE_TTL or more
\* after another goes upstream.
C1_AsStated ==
    \A i \in 1..(Len(calls) - 1) :
        IF calls[i + 1].t - calls[i].t < CACHE_TTL
        THEN calls[i].upstream # calls[i + 1].upstream
        ELSE calls[i + 1].upstream

\* C1 amended: a call that fetched a non-empty catalog is followed by no
\* upstream fetch for the next CACHE_TTL seconds (one fetch in total for the
\* two calls); a call whose fetch failed or left the catalog empty is followed
\* by a new fetch at the very next call; the first call made CACHE_TTL or more
\* after a successful fetch goes upstream again.
C1_CacheFreshness ==
    \A i \in 1..Len(calls) : \A j \in (i + 1)..Len(calls) :
        /\ (FetchedCatalog(i) /\ calls[j].t - calls[i].t < CACHE_TTL)
              => ~calls[j].upstream
        /\ (FetchedCatalog(i) /\ calls[j].t - calls[i].t >= CACHE_TTL /\ NoFetchBetween(i, j))
              => calls[j].upstream
        /\ (j = i + 1 /\ ~Truthy(calls[i].ret)) => calls[j].upstream

C1_Witness ==
    /\ Len(calls) = 3
    /\ FetchedCatalog(1)
    /\ calls[2].t - calls[1].t < CACHE_TTL /\ calls[2].t > calls[1].t
    /\ ~calls[2].upstream
    /\ calls[3].t - calls[1].t = CACHE_TTL
    /\ calls[3].upstream

\* C2: a fetch_templates() call whose refresh fails (network error, non-2xx
\* status, body that does not parse) leaves _templates_cache and
\* _templates_fetched_at as they were and returns the catalog cached before.
C2_FailedRefreshKeepsCache ==
    [][(calls' # calls /\ LastCall'.status \in Failures)
         => /\ templates_cache' = templates_cache
            /\ templates_fetched_at' = templates_fetched_at
            /\ LastCall'.ret = templates_cache]_vars

C2_Witness ==
    /\ Len(calls) = 3
    /\ FetchedCatalog(1)
    /\ calls[2].status \in Failures
    /\ calls[3].status \in Failures
    /\ Truthy(templates_cache)
    /\ templates_fetched_at = calls[1].t
    /\ now - templates_fetched_at >= CACHE_TTL

\* C3: fetch_templates() answers from the cache without an upstream request
\* exactly when the cached catalog is non-empty and younger than CACHE_TTL;
\* otherwise it requests the list, and a successful answer replaces the
\* catalog as a whole and sets the timestamp to the time of the call.
C3_CachePolicy ==
    [][calls' # calls
         => /\ ~LastCall'.upstream
                  <=> (Truthy(templates_cache) /\ now - templates_fetched_at < CACHE_TTL)
            /\ ~LastCall'.upstream
                  => /\ templates_cache' = templates_cache
                     /\ templates_fetched_at' = templates_fetched_at
                     /\ LastCall'.ret = templates_cache
            /\ (LastCall'.upstream /\ LastCall'.status = "ok")
                  => /\ templates_cache' = LastCall'.body
                     /\ templates_fetched_at' = now
                     /\ LastCall'.ret = LastCall'.body]_vars

C3_Witness ==
    /\ Len(calls) = 3
    /\ calls[1].upstream /\ calls[1].status = "ok" /\ ~Truthy(calls[1].ret)
    /\ calls[2].upstream /\ calls[2].status = "ok" /\ calls[2].t = calls[1].t
    /\ Truthy(calls[2].ret)
    /\ ~calls[3].upstream
    /\ templates_cache = calls[2].body
    /\ templates_fetched_at = calls[2].t

(***************************************************************************)
(* Properties of the socket lifecycle                                      *)
(***************************************************************************)
ServerIds(dir) == {SrvId(dir.servers[i]) : i \in 1..Len(dir.servers)}

ChannelsOf(dir, srv_id) ==
    {dir.channels[srv_id][i] : i \in 1..Len(dir.channels[srv_id])}

\* the ids an enumeration of the directory yields when the api_get calls have
\* the given outcomes
FreshEnumeration(dir, outcome) ==
    IF ~outcome.servers_ok THEN {}
    ELSE ServerIds(dir) \cup
         {c.id : c \in {ch \in UNION {ChannelsOf(dir, x) : x \in ServerIds(dir) \ outcome.failing} :
                           ch.type \in {"text", ""}}}

\* C6: once the bot has re-authenticated after a transport loss, the ids it
\* has emitted subscribe for on the new connection are those of an enumeration
\* of the directory from scratch, whatever was subscribed before the loss.
C6_ResubscribeFromScratch ==
    (conn = "Active" /\ connects >= 2 /\ auth_result = "success")
        => SubscribedIds(emitted) = FreshEnumeration(directory, api)

C6_Witness ==
    /\ conn = "Active" /\ connects >= 2 /\ auth_result = "success"
    /\ prev_subscribed # {}
    /\ SubscribedIds(emitted) # prev_subscribed
    /\ SubscribedIds(emitted) \cap prev_subscribed # {}
    /\ prev_subscribed \ SubscribedIds(emitted) # {}

ServerSub(id) == Emit("subscribe", "server", id)
ChannelSub(id) == Emit("subscribe", "channel", id)
Emitted(e) == \E n \in 1..Len(emitted) : emitted[n] = e

\* C7: when subscribe_all has run through, every server of the server list has
\* a server-scope subscribe, and every server whose channel listing succeeded
\* has its text channels subscribed, whichever other listings failed.
C7_EnumerationFailureDoesNotAbort ==
    (conn = "Active" /\ auth_result = "success" /\ api.servers_ok)
        => \A x \in ServerIds(directory) :
              /\ Emitted(ServerSub(x))
              /\ x \notin api.failing
                    => \A ch \in ChannelsOf(directory, x) :
                          ch.type \in {"text", ""} => Emitted(ChannelSub(ch.id))

C7_Witness ==
    /\ conn = "Active" /\ auth_result = "success" /\ api.servers_ok
    /\ \E i, j \in 1..Len(directory.servers) :
          /\ i < j
          /\ SrvId(directory.servers[i]) \in api.failing
          /\ SrvId(directory.servers[j]) \notin api.failing
          /\ Emitted(ServerSub(SrvId(directory.servers[j])))
          /\ \E ch \in ChannelsOf(directory, SrvId(directory.servers[j])) :
                ch.type = "text" /\ Emitted(ChannelSub(ch.id))

ChannelSubIds ==
    {emitted[i].id : i \in {n \in 1..Len(emitted) :
                              emitted[n].event = "subscribe" /\ emitted[n].type = "channel"}}

\* C8 as stated, for an enumeration in which every api_get call succeeded:
\* after an authentication success the channel-scope subscribes are those of
\* the channels whose type is "text" or which carry no type, and no others.
C8_AsStated ==
    (conn = "Active" /\ auth_result = "success" /\ api.servers_ok /\ api.failing = {})
        => ChannelSubIds =
              {c.id : c \in {ch \in UNION {ChannelsOf(directory, x) : x \in ServerIds(directory)} :
                                ch.type \in {"text", "", NoVal}}}

\* C9: while the gateway has not reported an authentication success on this
\* connection, no subscribe has been emitted and no api_get call has been made.
C9_NoSubscribeWithoutAuthSuccess ==
    auth_result # "success" => (SubscribedIds(emitted) = {} /\ api_gets = <<>>)

C9_Witness ==
    /\ conn = "AuthFailed" /\ auth_result = "failure"
    /\ connects >= 2
    /\ prev_subscribed # {}
    /\ emitted = <<Emit("authenticate", "", "")>>

(***************************************************************************)
(* Properties of the message-event handler                                 *)
(***************************************************************************)
Handled == last.event # NoEvent

\* the event passes the type test of line 312 and carries a message
IsNewMessage(e) == Get(e, "type", Str(<<>>)) \in NewMessageTypes /\ e.wrap # "null"

\* C4: a message event whose senderId is the bot's own id causes no
\* handle_command call and no send_message call, whatever its content,
\* mentions and type.
C4_OwnMessagesIgnored ==
    (Handled /\ Get(last.event, "senderId", Str(<<>>)) = bot_id)
        => (~last.dispatched /\ last.sent = <<>>)

C4_Witness ==
    /\ Handled /\ IsNewMessage(last.event)
    /\ bot_id = B1 /\ bot_name = BotName
    /\ last.event.senderId = bot_id
    /\ last.event.content = Str(C_mention_name)
    /\ last.event.mentions = List(<<B1>>)
    /\ last.event.isDirect = Absent
    /\ ~last.dispatched /\ last.sent = <<>>

\* C5: a message event with isDirect = true causes no handle_command call and
\* no send_message call, even when its content starts with !meme or mentions
\* the bot.
C5_DirectMessagesIgnored ==
    (Handled /\ last.event.isDirect = Bool(TRUE))
        => (~last.dispatched /\ last.sent = <<>>)

C5_Witness ==
    /\ Handled /\ IsNewMessage(last.event)
    /\ bot_id = B1
    /\ last.event.senderId = U1
    /\ last.event.isDirect = Bool(TRUE)
    /\ last.event.content = Str(C_help)
    /\ last.event.mentions = List(<<B1>>)
    /\ ~last.dispatched /\ last.sent = <<>>

\* C10 as stated: no exception leaves on_message_event; every failure of the
\* handling of an event ends in a reply or a log entry of the handler.
C10_AsStated == ~last.raised

(***************************************************************************)
(* Properties of the process lifecycle                                     *)
(***************************************************************************)
\* C11 as stated: a transport error is never fatal; once main() has reached
\* sio.connect(), the only thing that makes main() return is the explicit
\* shutdown of the process (a return during start-up, before any connection
\* attempt, is not a transport error).
C11_AsStated == conn = "Exited" => exit_cause \in {"startup", "shutdown"}

(***************************************************************************)
(* Properties of the text functions                                        *)
(***************************************************************************)
\* one pair of matching quote characters around the trimmed text removed
OnePairUnquoted(s) ==
    LET t == Strip(s) IN
    IF Len(t) >= 2 /\ t[1] = t[Len(t)] /\ t[1] \in {"\"", "'"}
    THEN SubSeq(t, 2, Len(t) - 1)
    ELSE t

\* C16 as stated: _parse_top_bottom splits on the first |, trims each side
\* and removes from each side at most one pair of matching leading and
\* trailing quote characters; further and unmatched quote characters are
\* kept; without | the whole text is the top and the bottom is empty.
C16_AsStated ==
    text_out.op = "parse"
        => LET i == Find(text_in, <<"|">>) IN
           IF i # 0
           THEN /\ text_out.top = OnePairUnquoted(SubSeq(text_in, 1, i - 1))
                /\ text_out.bottom = OnePairUnquoted(Drop(text_in, i))
           ELSE /\ text_out.top = OnePairUnquoted(text_in)
                /\ text_out.bottom = <<>>

\* what one character of the trimmed text becomes
CharCode(c) ==
    CASE c = "-" -> <<"-", "-">>
      [] c = "_" -> <<"_", "_">>
      [] c = " " -> <<"_">>
      [] c = "?" -> <<"~", "q">>
      [] c = "&" -> <<"~", "a">>
      [] c = "%" -> <<"~", "p">>
      [] c = "#" -> <<"~", "h">>
      [] c = "/" -> <<"~", "s">>
      [] c = "\\" -> <<"~", "b">>
      [] c = "\"" -> <<"'", "'">>
      [] OTHER -> <<c>>

RECURSIVE CodeOf(_)
CodeOf(t) == IF t = <<>> THEN <<>> ELSE CharCode(Head(t)) \o CodeOf(Tail(t))

\* C18: _encode_memegen_text returns _ for a text that is empty once trimmed;
\* otherwise every character of the trimmed text is replaced once, by its own
\* code, no rule acting on the output of an earlier rule; the result holds
\* none of the characters space ? & % # / \ and ".
C18_EncodeIsCharacterwise ==
    text_out.op = "encode"
        => /\ text_out.ret = IF Strip(text_in) = <<>> THEN <<"_">>
                             ELSE CodeOf(Strip(text_in))
           /\ \A i \in 1..Len(text_out.ret) :
                 text_out.ret[i] \notin {" ", "?", "&", "%", "#", "/", "\\", "\""}

C18_Witness ==
    /\ text_out.op = "encode"
    /\ text_in = <<"_", " ", "?">>
    /\ text_out.ret = <<"_", "_", "_", "~", "q">>

(***************************************************************************)
(* Properties of the commands                                              *)
(***************************************************************************)
\* the last event is a new message that is not a direct message, comes from
\* another user and has a text as its content
FromOtherUser ==
    /\ Handled /\ IsNewMessage(last.event)
    /\ Get(last.event, "senderId", Str(<<>>)) # bot_id
    /\ ~Truthy(Get(last.event, "isDirect", None))
    /\ Get(last.event, "content", Str(<<>>)).k = "str"

ContentOf(e) == Get(e, "content", Str(<<>>)).s

\* where the replies to an event have to go
ServerOf(e) == Get(e, "serverId", Str(<<>>))
ChannelOf(e) == Get(e, "channelId", Str(<<>>))

\* the verb and the arguments of a command text
VerbOf(text) == IF Strip(text) = <<>> THEN <<>> ELSE Lower(SplitFirst(Strip(text)).first)
ArgsOf(text) == IF Strip(text) = <<>> THEN <<>> ELSE SplitFirst(Strip(text)).rest

ImageUrl(template, top, bottom) ==
    MEMEGEN_API \o <<"/images/">> \o template \o <<"/">> \o top \o <<"/">> \o bottom
       \o <<".png">>

\* C12: a new message of another user, not direct, whose content is
\* !meme generate <template> <top> | <bottom> is answered by exactly one
\* send_message call, to the server and channel of the event, whose content
\* is the image URL of the lower-cased template with the encoded captions,
\* the quotes around each half removed.
C12_GenerateReply ==
    \A g \in GenCases :
       (FromOtherUser /\ ContentOf(last.event) = GenContent(g))
          => last.sent = <<Msg(ServerOf(last.event), ChannelOf(last.event),
                               ImageUrl(Lower(g.template), EncodeMemegenText(g.top),
                                        EncodeMemegenText(g.bottom)))>>

C12_Witness ==
    /\ FromOtherUser
    /\ ContentOf(last.event) = C_generate
    /\ Len(last.sent) = 1
    /\ last.sent[1].server_id = Str(<<"S", "1">>)
    /\ last.sent[1].channel_id = Str(<<"C", "1">>)
    /\ last.sent[1].content =
          <<"https://api.memegen.link", "/images/", "d", "r", "/", "A", "/", "B", ".png">>

\* C13: a command text whose first token, lower-cased, is none of the six
\* verbs is answered as generate applied to the whole text: the first token
\* is the template id, the rest the captions; the reply is the image URL,
\* never a usage or error text.
C13_UnknownVerbIsGenerate ==
    (Handled /\ last.dispatched /\ VerbOf(last.text) # <<>> /\ VerbOf(last.text) \notin COMMANDS)
        => /\ ~last.raised
           /\ last.sent = <<Msg(ServerOf(last.event), ChannelOf(last.event),
                                BuildMemeUrl(VerbOf(last.text),
                                             ParseTopBottom(ArgsOf(last.text)).top,
                                             ParseTopBottom(ArgsOf(last.text)).bottom))>>

C13_Witness ==
    /\ FromOtherUser
    /\ ContentOf(last.event) = C_unknown
    /\ last.via = "direct"
    /\ Len(last.sent) = 1
    /\ last.sent[1].content =
          <<"https://api.memegen.link", "/images/", "x", "y", "z", "/", "h", "i", "/", "_",
            ".png">>

\* C14 as stated: preview with a non-empty template argument sends the image
\* URL whose top and bottom segments are both the blank marker _.
C14_AsStated ==
    (FromOtherUser /\ last.dispatched /\ VerbOf(last.text) = W_preview
        /\ Strip(ArgsOf(last.text)) # <<>>)
        => last.sent = <<Msg(ServerOf(last.event), ChannelOf(last.event),
                             ImageUrl(Lower(Strip(ArgsOf(last.text))), <<"_">>, <<"_">>))>>

\* C15 as stated: a new message of another user, not direct and not starting
\* with !meme, that holds @<bot name> in any letter case is taken as a
\* mention command, also when the bot id is not among the mentions and no id
\* token is in the content.
C15_AsStated ==
    (FromOtherUser /\ Truthy(bot_id) /\ bot_name.k = "str"
        /\ Get(last.event, "mentions", List(<<>>)).k = "list"
        /\ ~StartsWith(ContentOf(last.event), P_meme)
        /\ Contains(Lower(ContentOf(last.event)), Lower(NameToken(bot_name))))
        => (last.dispatched /\ last.via = "mention")

\* C17 as stated: when the GET /templates of a templates, search or random
\* command fails and no catalog is cached, the reply is the failure text;
\* when a catalog is cached, the reply is made from it.
C17_AsStated ==
    (Handled /\ last.dispatched /\ last.fetch /\ last.failed)
        => IF Truthy(templates_cache)
           THEN (~last.raised => /\ Len(last.sent) = 1
                                 /\ last.sent[1].content # FetchFailedText)
           ELSE last.sent = <<Msg(ServerOf(last.event), ChannelOf(last.event),
                                  FetchFailedText)>>

\* C19 as stated: an event taken as a command is answered by exactly one
\* send_message call, to the server and channel of the event; an event that
\* starts with !meme and also mentions the bot is dispatched as a direct
\* command; an event that is not taken as a command is answered by none.
C19_AsStated ==
    Handled
        => IF last.dispatched
           THEN /\ Len(last.sent) = 1
                /\ last.sent[1].server_id = ServerOf(last.event)
                /\ last.sent[1].channel_id = ChannelOf(last.event)
                /\ StartsWith(ContentOf(last.event), P_meme) => last.via = "direct"
           ELSE last.sent = <<>>

\* C20: the handling of a help, generate or preview command, or of a command
\* with an unknown verb, makes no fetch_templates call and leaves
\* _templates_cache and _templates_fetched_at as they were; generate and the
\* fallback answer with the image URL whatever the catalog holds.
C20_NoCatalogUse ==
    [][(event # NoEvent /\ event' = NoEvent /\ last'.dispatched
          /\ VerbOf(last'.text) \notin {W_templates, W_search, W_random})
         => /\ ~last'.fetch /\ ~last'.upstream
            /\ templates_cache' = templates_cache
            /\ templates_fetched_at' = templates_fetched_at
            /\ (VerbOf(last'.text) \notin {<<>>, W_help, W_preview}
                   /\ (VerbOf(last'.text) = W_generate => Strip(ArgsOf(last'.text)) # <<>>))
                 => /\ Len(last'.sent) = 1
                    /\ StartsWith(last'.sent[1].content, MEMEGEN_API \o <<"/images/">>)]_vars

C20_Witness ==
    /\ FromOtherUser
    /\ ContentOf(last.event) = C_unknown
    /\ templates_cache = List(<<T_dr, T_fry>>)
    /\ now - templates_fetched_at >= CACHE_TTL
    /\ ~last.fetch
    /\ Len(last.sent) = 1
    /\ StartsWith(last.sent[1].content, MEMEGEN_API \o <<"/images/", "x", "y", "z", "/">>)

====
